---- MODULE Spec2Model ----
(***************************************************************************)
(* Model of src/rectangle.py: order_points, four_point_transform and the   *)
(* rectangle() detection pipeline.                                         *)
(*                                                                         *)
(* Points are pairs <<x, y>> of small naturals (approxPolyDP yields int32  *)
(* pixel coordinates; the float32 copies made by order_points are exact    *)
(* for them).  Image buffers are named cells of `mem`; the content of a    *)
(* buffer is a record [base, marks] where marks is the set of outlines     *)
(* that cv2.drawContours has painted into it.                              *)
(***************************************************************************)
EXTENDS Integers, Sequences, FiniteSets, TLC

VARIABLES pts, op, rect, fpt,
          pc, mem, img0, extracted, cnts, screenCnt, screenIdx,
          contour_img, warped_img, ret

vars == <<pts, op, rect, fpt,
          pc, mem, img0, extracted, cnts, screenCnt, screenIdx,
          contour_img, warped_img, ret>>

fvars == <<pts, op, rect, fpt>>

pvars == <<pc, mem, img0, extracted, cnts, screenCnt, screenIdx,
           contour_img, warped_img, ret>>

(* ---------------------------- bounds ---------------------------------- *)

MaxCoord == 2

MaxContours == 6

MaxArea == 2

(* -------------------------- program constants ------------------------- *)

TopK == 5

QuadLen == 4

None == "None"

Grid == (0..MaxCoord) \X (0..MaxCoord)

PointSeqs == [1..4 -> Grid]

(* ------------------------------ order_points -------------------------- *)

\* s = pts.sum(axis=1)
Sum(p) == [i \in DOMAIN p |-> p[i][1] + p[i][2]]

\* variant: the difference taken the other way round, x - y
DiffSwapped(p) == [i \in DOMAIN p |-> p[i][1] - p[i][2]]

\* diff = np.diff(pts, axis=1): second column minus first column, y - x
Diff(p) == [i \in DOMAIN p |-> p[i][2] - p[i][1]]

\* variant: index of the last occurrence of the minimum
ArgMinLast(f) ==
    CHOOSE i \in DOMAIN f :
        /\ \A j \in DOMAIN f : f[i] <= f[j]
        /\ \A j \in DOMAIN f : j > i => f[j] # f[i]

\* np.argmin: index of the first occurrence of the minimum
ArgMin(f) ==
    CHOOSE i \in DOMAIN f :
        /\ \A j \in DOMAIN f : f[i] <= f[j]
        /\ \A j \in DOMAIN f : j < i => f[j] # f[i]

\* np.argmax: index of the first occurrence of the maximum
ArgMax(f) ==
    CHOOSE i \in DOMAIN f :
        /\ \A j \in DOMAIN f : f[i] >= f[j]
        /\ \A j \in DOMAIN f : j < i => f[j] # f[i]

\* rect[0], rect[1], rect[2], rect[3] of the source are positions 1..4 here
order_points(p) ==
    << p[ArgMin(Sum(p))],
       p[ArgMin(Diff(p))],
       p[ArgMax(Sum(p))],
       p[ArgMax(Diff(p))] >>

(* --------------------------- four_point_transform --------------------- *)

\* int(np.sqrt(n)) for a natural n: truncation of the square root (the
\* float32 root of a small integer never rounds up to the next integer)
ISqrt(n) == CHOOSE k \in 0..n : k * k <= n /\ n < (k + 1) * (k + 1)

SqDist(a, b) == (a[1] - b[1]) * (a[1] - b[1]) + (a[2] - b[2]) * (a[2] - b[2])

Max2(a, b) == IF a >= b THEN a ELSE b

\* variant: the width taken along the vertical sides
maxWidthSwapped(r) ==
    Max2(ISqrt(SqDist(r[2], r[3])), ISqrt(SqDist(r[1], r[4])))

\* r = <<tl, tr, br, bl>>; widthA = |br - bl|, widthB = |tr - tl|
maxWidth(r) ==
    Max2(ISqrt(SqDist(r[3], r[4])), ISqrt(SqDist(r[2], r[1])))

\* heightA = |tr - br|, heightB = |tl - bl|
maxHeight(r) ==
    Max2(ISqrt(SqDist(r[2], r[3])), ISqrt(SqDist(r[1], r[4])))

\* dst = [[0,0],[maxWidth-1,0],[maxWidth-1,maxHeight-1],[0,maxHeight-1]]
dst(w, h) == << <<0, 0>>, <<w - 1, 0>>, <<w - 1, h - 1>>, <<0, h - 1>> >>

\* What cv2.getPerspectiveTransform + cv2.warpPerspective can do with the
\* requested size.  A positive size yields a buffer of that size.  An empty
\* size is outside the documented domain of the library call: depending on
\* the build it raises cv2.error or hands back a buffer anyway.
WarpOutcomes(w, h) ==
    IF w > 0 /\ h > 0 THEN {"returned"} ELSE {"returned", "cv2.error"}

\* lines 65-74 for one outcome of the library call: the destination
\* corners, the solve and the resampling of image.  steps records the
\* statements executed, in order.
warpPerspective(image, r, w, h, outcome) ==
    [ rect    |-> r,
      width   |-> w,
      height  |-> h,
      dst     |-> dst(w, h),
      src     |-> image,
      steps   |-> << "order_points", "size", "dst",
                     "getPerspectiveTransform", "warpPerspective" >>,
      outcome |-> outcome ]

\* The whole of four_point_transform(image, p): the set of results the call
\* can end with (one per outcome of the library call).
four_point_transform(image, p) ==
    UNION { UNION { { warpPerspective(image, r, w, h, o) : o \in WarpOutcomes(w, h) } :
                    w \in {maxWidth(r)}, h \in {maxHeight(r)} } :
            r \in {order_points(p)} }

(* ------------------------------ rectangle ----------------------------- *)

\* Polygons that cv2.approxPolyDP can hand back, in boundary-walk order:
\* a convex 4-gon, a non-convex 4-gon and a triangle.
RectShape == << <<0, 0>>, <<2, 0>>, <<2, 1>>, <<0, 1>> >>

DartShape == << <<0, 0>>, <<2, 0>>, <<1, 1>>, <<1, 2>> >>

TriShape == << <<0, 0>>, <<2, 0>>, <<0, 2>> >>

\* Per contour the extraction says whether its outline is the quadrilateral
\* ("quad") or not ("other"); per image, the outlines that are not the
\* quadrilateral all approximate to one polygon, the dart or the triangle.
Kinds == {"quad", "other"}

Others == {"dart", "tri"}

Areas == 1..MaxArea

\* A pristine caller image: nothing has been painted into it.
FreshImage == [base |-> "scene", marks |-> {}]

\* cv2.findContours + imutils.grab_contours: a list of contours, each with
\* its enclosed area (cv2.contourArea) and the shape of its boundary; id is
\* the position in extraction order.  f lists the <<area, kind>> pairs in
\* extraction order.
grab_contours(f, other) ==
    [i \in DOMAIN f |->
        [id    |-> i,
         area  |-> f[i][1],
         shape |-> IF f[i][2] = "quad" THEN "rect" ELSE other]]

Poly == [s \in {"rect", "dart", "tri"} |->
            CASE s = "rect" -> RectShape
              [] s = "dart" -> DartShape
              [] s = "tri"  -> TriShape]

\* approx = cv2.approxPolyDP(c, 0.02 * peri, True)
approxPolyDP(c) == Poly[c.shape]

Cross(a, b, c) ==
    (b[1] - a[1]) * (c[2] - b[2]) - (b[2] - a[2]) * (c[1] - b[1])

\* cv2.isContourConvex: the turns along the closed polygon never change sign
isContourConvex(poly) ==
    LET n == Len(poly)
        nxt(i) == (i % n) + 1
        turn(i) == Cross(poly[i], poly[nxt(i)], poly[nxt(nxt(i))])
    IN  ~ ( (\E i \in 1..n : turn(i) > 0) /\ (\E i \in 1..n : turn(i) < 0) )

\* variant: the shapes passing len(approx) == 4 alone
FourVertexShapes == {s \in DOMAIN Poly : Len(Poly[s]) = QuadLen}

\* the shapes whose approximation passes
\* len(approx) == 4 and cv2.isContourConvex(approx)
QualifyingShapes ==
    {s \in DOMAIN Poly : Len(Poly[s]) = QuadLen /\ isContourConvex(Poly[s])}

\* the test of line 101 applied to contour c
Qualifies(c) == c.shape \in QualifyingShapes

\* insert c into a list already sorted by descending area, behind every
\* element whose area is not smaller (stable)
RECURSIVE InsertDesc(_, _)
InsertDesc(c, s) ==
    IF s = <<>> THEN <<c>>
    ELSE IF Head(s).area >= c.area THEN <<Head(s)>> \o InsertDesc(c, Tail(s))
    ELSE <<c>> \o s

\* variant: ascending order, as sorted() without reverse=True
RECURSIVE InsertAsc(_, _)
InsertAsc(c, s) ==
    IF s = <<>> THEN <<c>>
    ELSE IF Head(s).area <= c.area THEN <<Head(s)>> \o InsertAsc(c, Tail(s))
    ELSE <<c>> \o s

RECURSIVE sortedAsc(_)
sortedAsc(cs) ==
    IF cs = <<>> THEN <<>>
    ELSE InsertAsc(cs[Len(cs)], sortedAsc(SubSeq(cs, 1, Len(cs) - 1)))

\* sorted(cnts, key=cv2.contourArea, reverse=True)
RECURSIVE sorted(_)
sorted(cs) ==
    IF cs = <<>> THEN <<>>
    ELSE InsertDesc(cs[Len(cs)], sorted(SubSeq(cs, 1, Len(cs) - 1)))

\* [:5]
take(cs) == SubSeq(cs, 1, IF Len(cs) < TopK THEN Len(cs) ELSE TopK)

\* the for loop with its break, from position i on: position of the first
\* qualifying contour in the ranked list, 0 when the loop runs to its end
RECURSIVE forLoopFrom(_, _)
forLoopFrom(cs, i) ==
    IF i > Len(cs) THEN 0
    ELSE IF Qualifies(cs[i]) THEN i
    ELSE forLoopFrom(cs, i + 1)

forLoop(cs) == forLoopFrom(cs, 1)

\* cv2.drawContours(img, [screenCnt], 0, (0, 255, 0), 3): paints the outline
\* into the buffer it is given; the value is that buffer's new content
drawContours(image, poly) == [image EXCEPT !.marks = @ \cup {poly}]

\* return img, img
NotFoundReturn == <<"img", "img">>

(* ------------------------------- actions ------------------------------ *)

IdleP ==
    /\ pc = "idle"
    /\ mem = [img |-> None, warped |-> None]
    /\ img0 = None
    /\ extracted = <<>>
    /\ cnts = <<>>
    /\ screenCnt = None
    /\ screenIdx = 0
    /\ contour_img = None
    /\ warped_img = None
    /\ ret = None

IdleF ==
    /\ op = "init"
    /\ rect = None
    /\ fpt = None

\* The caller obtains an image and puts it into its buffer mem.img.  What
\* cv2.findContours will report for an image is fixed by the image, so the
\* contour list is chosen here, with the image.
Acquire ==
    /\ pc = "idle"
    /\ \E other \in Others, n \in 0..MaxContours :
       \E f \in [1..n -> Areas \X Kinds] :
          extracted' = grab_contours(f, other)
    /\ mem' = [img |-> FreshImage, warped |-> None]
    /\ img0' = FreshImage
    /\ pc' = "ready"
    /\ UNCHANGED <<cnts, screenCnt, screenIdx, contour_img, warped_img, ret>>
    /\ UNCHANGED fvars

\* One call of rectangle(img) on the caller's buffer mem.img.  Lines 86-91
\* extract the contours, rank them and keep five; lines 93-103 scan them;
\* lines 104-107 draw into img, warp img and return; line 109 returns img
\* twice.  An error of the library call leaves rectangle() by exception with
\* nothing returned.
rectangle ==
    /\ pc = "ready"
    /\ \E ranked \in {take(sorted(extracted))} :
       \E k \in {forLoop(ranked)} :
          /\ cnts' = ranked
          /\ screenIdx' = k
          /\ IF k = 0
             THEN /\ screenCnt' = None
                  /\ contour_img' = None
                  /\ warped_img' = None
                  /\ ret' = NotFoundReturn
                  /\ pc' = "done"
                  /\ UNCHANGED mem
             ELSE \E poly \in {approxPolyDP(ranked[k])} :
                  \E drawn \in {drawContours(mem.img, poly)} :
                  \E res \in four_point_transform(drawn, poly) :
                     /\ screenCnt' = poly
                     /\ contour_img' = "img"
                     /\ IF res.outcome = "returned"
                        THEN /\ mem' = [img |-> drawn, warped |-> res]
                             /\ warped_img' = "warped"
                             /\ ret' = <<"img", "warped">>
                             /\ pc' = "done"
                        ELSE /\ mem' = [img |-> drawn, warped |-> None]
                             /\ warped_img' = None
                             /\ ret' = None
                             /\ pc' = "raised"
    /\ UNCHANGED <<img0, extracted>>
    /\ UNCHANGED fvars

\* the caller is finished with the results; the next call starts afresh
\* (no state survives a call)
NextCall ==
    /\ pc \in {"done", "raised"}
    /\ pc' = "idle"
    /\ mem' = [img |-> None, warped |-> None]
    /\ img0' = None
    /\ extracted' = <<>>
    /\ cnts' = <<>>
    /\ screenCnt' = None
    /\ screenIdx' = 0
    /\ contour_img' = None
    /\ warped_img' = None
    /\ ret' = None
    /\ UNCHANGED fvars

\* a direct call of order_points(pts)
CallOrderPoints ==
    /\ op = "init"
    /\ rect' = order_points(pts)
    /\ op' = "order_points"
    /\ UNCHANGED <<pts, fpt>>
    /\ UNCHANGED pvars

\* a direct call of four_point_transform(image, pts)
CallFourPointTransform ==
    /\ op = "init"
    /\ \E res \in four_point_transform(FreshImage, pts) : fpt' = res
    /\ op' = "four_point_transform"
    /\ UNCHANGED <<pts, rect>>
    /\ UNCHANGED pvars

Init ==
    /\ pts = RectShape
    /\ IdleF
    /\ IdleP

Next == Acquire \/ rectangle \/ NextCall

Spec == Init /\ [][Next]_vars

InitFn ==
    /\ pts \in PointSeqs
    /\ IdleF
    /\ IdleP

NextFn == CallOrderPoints \/ CallFourPointTransform

SpecFn == InitFn /\ [][NextFn]_vars

(* ------------------- vocabulary of the properties --------------------- *)

Returned == pc \in {"done", "raised"}

\* c is ranked before d: larger enclosed area, or equal area and extracted
\* earlier
Beats(c, d) == c.area > d.area \/ (c.area = d.area /\ c.id < d.id)

\* number of extracted contours ranked before d
RankOf(d) ==
    Cardinality({i \in 1..Len(extracted) : Beats(extracted[i], d)})

\* the extracted contours that are among the TopK largest
TopRanked == {i \in 1..Len(extracted) : RankOf(extracted[i]) < TopK}

ConvexQuadShapes ==
    {s \in DOMAIN Poly : Len(Poly[s]) = 4 /\ isContourConvex(Poly[s])}

\* the polygon approximation of c has 4 vertices and is convex
IsConvexQuad(c) == c.shape \in ConvexQuadShapes

\* no contour among the TopK largest has a convex 4-vertex approximation
NoneQualifies ==
    \A i \in 1..Len(extracted) :
        IsConvexQuad(extracted[i]) => RankOf(extracted[i]) >= TopK

Perms4 == {q \in [1..4 -> 1..4] : \A i, j \in 1..4 : q[i] = q[j] => i = j}

Permuted(p, q) == [i \in 1..4 |-> p[q[i]]]

Distinct4(p) == \A i, j \in 1..4 : p[i] = p[j] => i = j

\* the 4 points are the corners of a rectangle of positive area: walked in
\* some order a, b, c, d the diagonals ac and bd share their midpoint and
\* their length
IsRectangle(p) ==
    /\ Distinct4(p)
    /\ \E q \in Perms4 :
          LET a == p[q[1]]
              b == p[q[2]]
              c == p[q[3]]
              d == p[q[4]]
          IN  /\ a[1] + c[1] = b[1] + d[1]
              /\ a[2] + c[2] = b[2] + d[2]
              /\ SqDist(a, c) = SqDist(b, d)

\* d lies inside or on the triangle a, b, c
InTriangle(a, b, c, d) ==
    \/ Cross(a, b, d) >= 0 /\ Cross(b, c, d) >= 0 /\ Cross(c, a, d) >= 0
    \/ Cross(a, b, d) <= 0 /\ Cross(b, c, d) <= 0 /\ Cross(c, a, d) <= 0

\* 4 distinct points, no three collinear, all four on their convex hull
NonDegenerate(p) ==
    /\ Distinct4(p)
    /\ \A i, j, k \in 1..4 :
          (i # j /\ j # k /\ i # k) => Cross(p[i], p[j], p[k]) # 0
    /\ \A q \in Perms4 : ~InTriangle(p[q[1]], p[q[2]], p[q[3]], p[q[4]])

MinOf(S) == CHOOSE m \in S : \A n \in S : m <= n

MaxOf(S) == CHOOSE m \in S : \A n \in S : m >= n

Xs(p) == {p[i][1] : i \in 1..4}

Ys(p) == {p[i][2] : i \in 1..4}

\* the corners of the axis-aligned rectangle spanned by p, as tl, tr, br, bl
Corners(p) ==
    << <<MinOf(Xs(p)), MinOf(Ys(p))>>, <<MaxOf(Xs(p)), MinOf(Ys(p))>>,
       <<MaxOf(Xs(p)), MaxOf(Ys(p))>>, <<MinOf(Xs(p)), MaxOf(Ys(p))>> >>

\* p lists, in some order, the 4 corners (x0,y0), (x1,y0), (x1,y1), (x0,y1)
\* of an axis-aligned rectangle with x0 < x1 and y0 < y1
IsAxisAligned(p) ==
    /\ MinOf(Xs(p)) < MaxOf(Xs(p))
    /\ MinOf(Ys(p)) < MaxOf(Ys(p))
    /\ {p[i] : i \in 1..4} = {Corners(p)[i] : i \in 1..4}

SumOf(pt) == pt[1] + pt[2]

XMinusY(pt) == pt[1] - pt[2]

YMinusX(pt) == pt[2] - pt[1]

\* smallest index of p whose point carries the value v under key
FirstIndex(p, key(_), v) ==
    MinOf({i \in 1..4 : key(p[i]) = v})

(* ------------------------------ properties ---------------------------- *)

\* C1: every call of rectangle leaves the caller's input buffer unchanged,
\* and when a quadrilateral is found the annotated image returned is a
\* buffer other than the input.
C1_InputUntouched ==
    Returned =>
        /\ mem.img = img0
        /\ (pc = "done" /\ screenCnt # None) => ret[1] # "img"

\* C2: when none of the (at most 5) largest contours approximates to a
\* convex 4-vertex polygon, also when there is no contour at all, the call
\* raises nothing and returns the input buffer itself, contents unmodified,
\* as the annotated and as the warped output.
C2_NotFoundPassThrough ==
    (Returned /\ NoneQualifies) =>
        /\ pc = "done"
        /\ ret = <<"img", "img">>
        /\ mem.img = img0
        /\ mem.warped = None

C2_Witness ==
    /\ pc = "done"
    /\ NoneQualifies
    /\ Len(extracted) >= 2
    /\ \E i \in 1..Len(extracted) : extracted[i].shape = "dart"
    /\ ret = <<"img", "img">>

\* C3: for the corners of any rectangle, order_points gives the same
\* (tl, tr, br, bl) for each of the 24 orders the points can be handed in.
C3_PermutationInvariant ==
    (op = "order_points" /\ IsRectangle(pts)) =>
        \A q \in Perms4 : order_points(Permuted(pts, q)) = rect

\* C4 as stated: position 0 minimises x + y, position 2 maximises x + y,
\* position 1 minimises x - y and position 3 maximises x - y.
C4_AsStated ==
    op = "order_points" =>
        \A i \in 1..4 :
            /\ SumOf(rect[1]) <= SumOf(pts[i])
            /\ SumOf(rect[3]) >= SumOf(pts[i])
            /\ XMinusY(rect[2]) <= XMinusY(pts[i])
            /\ XMinusY(rect[4]) >= XMinusY(pts[i])

\* C4 amended: position 0 (top-left) minimises x + y, position 2
\* (bottom-right) maximises x + y, position 1 (top-right) minimises y - x
\* and position 3 (bottom-left) maximises y - x.
C4_Amended ==
    op = "order_points" =>
        \A i \in 1..4 :
            /\ SumOf(rect[1]) <= SumOf(pts[i])
            /\ SumOf(rect[3]) >= SumOf(pts[i])
            /\ YMinusX(rect[2]) <= YMinusX(pts[i])
            /\ YMinusX(rect[4]) >= YMinusX(pts[i])

C4_Witness ==
    /\ op = "order_points"
    /\ \E i \in 1..4 : XMinusY(pts[i]) < XMinusY(rect[2])
    /\ \E i \in 1..4 : XMinusY(pts[i]) > XMinusY(rect[4])

\* C5: for 4 distinct points in convex position with no three collinear,
\* handed to four_point_transform in any order, the computed width and
\* height are both at least 1.
C5_PositiveSize ==
    (op = "four_point_transform" /\ NonDegenerate(pts)) =>
        fpt.width >= 1 /\ fpt.height >= 1

\* C6: whenever the computed width or height is 0 the call ends in the
\* DegenerateQuadrilateral error and never builds the destination
\* rectangle, solves the homography or returns a buffer.
C6_DegenerateRejected ==
    (op = "four_point_transform" /\ (fpt.width = 0 \/ fpt.height = 0)) =>
        /\ fpt.outcome = "DegenerateQuadrilateral"
        /\ \A k \in 1..Len(fpt.steps) :
              fpt.steps[k] \notin {"dst", "getPerspectiveTransform", "warpPerspective"}

\* C7: the contours scanned are the (at most) 5 largest in descending area
\* order, ties in extraction order; the one selected is the first of them
\* whose approximation is a convex 4-gon: it is ranked among the first 5
\* and no contour ranked before it qualifies; nothing is selected only when
\* none of the first 5 qualifies.
C7_GreedySelection ==
    Returned =>
        /\ Len(cnts) = IF Len(extracted) < TopK THEN Len(extracted) ELSE TopK
        /\ \A k \in 1..Len(cnts) :
              /\ cnts[k].id \in 1..Len(extracted)
              /\ cnts[k] = extracted[cnts[k].id]
              /\ RankOf(cnts[k]) = k - 1
        /\ screenIdx \in 0..Len(cnts)
        /\ screenIdx # 0 =>
              /\ IsConvexQuad(cnts[screenIdx])
              /\ screenCnt = Poly[cnts[screenIdx].shape]
              /\ RankOf(cnts[screenIdx]) < TopK
              /\ \A i \in 1..Len(extracted) :
                    Beats(extracted[i], cnts[screenIdx]) => ~IsConvexQuad(extracted[i])
        /\ screenIdx = 0 => (screenCnt = None /\ NoneQualifies)

C7_Witness ==
    /\ pc = "done"
    /\ Len(extracted) > TopK
    /\ screenIdx >= 2
    /\ cnts[screenIdx].area = cnts[1].area
    /\ \E i \in 1..Len(extracted) :
          i \notin TopRanked /\ IsConvexQuad(extracted[i])

\* C8: for the corners (x0,y0), (x1,y0), (x1,y1), (x0,y1) of an axis-aligned
\* rectangle, x0 < x1 and y0 < y1, in any order, order_points assigns them
\* to tl, tr, br, bl in that order and the output is x1 - x0 wide and
\* y1 - y0 high.
C8_AxisAligned ==
    (op = "four_point_transform" /\ IsAxisAligned(pts)) =>
        /\ fpt.rect = Corners(pts)
        /\ fpt.width = MaxOf(Xs(pts)) - MinOf(Xs(pts))
        /\ fpt.height = MaxOf(Ys(pts)) - MinOf(Ys(pts))
        /\ fpt.outcome = "returned"

C8_Witness ==
    /\ op = "four_point_transform"
    /\ IsAxisAligned(pts)
    /\ pts # Corners(pts)
    /\ fpt.width # fpt.height

\* C9: in the found branch the image handed to four_point_transform holds
\* the pixels the caller passed in; the outline is not in what the warp
\* samples.
C9_WarpSamplesOriginal ==
    (pc = "done" /\ screenCnt # None) => mem.warped.src = img0

\* C10: for each role, among the points sharing the extremal key (the sum
\* for tl and br, the difference for tr and bl) the one with the smallest
\* input index is assigned; every point returned is one of the inputs.
C10_FirstIndexWins ==
    op = "order_points" =>
        LET sums  == {SumOf(pts[i]) : i \in 1..4}
            diffs == {YMinusX(pts[i]) : i \in 1..4}
        IN  /\ rect[1] = pts[FirstIndex(pts, SumOf, MinOf(sums))]
            /\ rect[3] = pts[FirstIndex(pts, SumOf, MaxOf(sums))]
            /\ rect[2] = pts[FirstIndex(pts, YMinusX, MinOf(diffs))]
            /\ rect[4] = pts[FirstIndex(pts, YMinusX, MaxOf(diffs))]
            /\ \A r \in 1..4 : \E i \in 1..4 : rect[r] = pts[i]

\* a tie for the smallest sum between two different points, and one input
\* point returned for two roles
C10_Witness ==
    /\ op = "order_points"
    /\ \E i, j \in 1..4 :
          /\ i < j
          /\ pts[i] # pts[j]
          /\ SumOf(pts[i]) = SumOf(pts[j])
          /\ \A k \in 1..4 : SumOf(pts[i]) <= SumOf(pts[k])
          /\ rect[1] = pts[i]
    /\ rect[1] = rect[2]
    /\ Distinct4(pts)

====
